---- MODULE Spec2Model ----
(***************************************************************************)
(* Model of the user-registration pipeline of the backend:                 *)
(*   routes/user.routes.js  -> multer Upload.fields -> registerUser        *)
(*   controllers/user.controller.js (registerUser, wrapped by asyncHandler) *)
(*   utils/cloudInary (uploadOnCloudinary), models/user.model (userSchema)  *)
(*   utils/apiError, utils/apiResponse, app.js (the middleware chain).      *)
(*                                                                         *)
(* A JavaScript string is a sequence of one-character strings, so that     *)
(* trim() and toLowerCase() are computed and not assumed.  One action is   *)
(* one run of the handler between two awaits (JavaScript runs a callback   *)
(* to completion; other requests interleave only at an await).             *)
(***************************************************************************)
EXTENDS Naturals, Sequences, FiniteSets, TLC

VARIABLES
    users,   \* the documents of the users collection
    files,   \* the paths that exist on the local filesystem
    req,     \* per client: the request being handled, the handler's locals, the response
    up,      \* a call of uploadOnCloudinary followed on its own
    boot     \* the start of the process: index.js

vars == <<users, files, req, up, boot>>

-----------------------------------------------------------------------------
(* Strings *)

\* the value of a field that the payload does not carry
Undefined == <<"undefined">>

Space == " "

\* String.prototype.toLowerCase on one character
LowerChar(c) ==
    CASE c = "A" -> "a"
      [] c = "B" -> "b"
      [] c = "E" -> "e"
      [] c = "F" -> "f"
      [] OTHER -> c

\* String.prototype.toLowerCase
ToLowerCase(s) == [i \in 1..Len(s) |-> LowerChar(s[i])]

RECURSIVE TrimStart(_)
TrimStart(s) ==
    IF s # <<>> /\ Head(s) = Space THEN TrimStart(Tail(s)) ELSE s

RECURSIVE TrimEnd(_)
TrimEnd(s) ==
    IF s # <<>> /\ s[Len(s)] = Space THEN TrimEnd(SubSeq(s, 1, Len(s) - 1)) ELSE s

\* String.prototype.trim
Trim(s) == TrimEnd(TrimStart(s))

\* the check without trim(): field === ""
IsBlankFieldNoTrim(field) == field = <<>>

\* field?.trim() === ""   (undefined?.trim() is undefined, which is not "")
IsBlankField(field) == field # Undefined /\ Trim(field) = <<>>

-----------------------------------------------------------------------------
(* utils/apiError, utils/apiResponse *)

\* new apiError(statusCode, message): errors defaults to [], data is null
ApiError(statusCode, message) ==
    [name |-> "apiError", statusCode |-> statusCode, message |-> message,
     errors |-> <<>>, data |-> "null", success |-> FALSE]

\* an error thrown by the runtime or by a library: no statusCode, no errors list
RawError(name, message) == [name |-> name, message |-> message]

NoError == [name |-> "none"]

\* new ApiResponse(statusCode, message, data): the parameters in declaration order
ApiResponse(statusCode, message, data) ==
    [statusCode |-> statusCode, message |-> message, data |-> data,
     success |-> (statusCode >= 200 /\ statusCode < 300)]

\* values a response body carries: a string or a document
Str(s) == [type |-> "string", val |-> s]
Obj(d) == [type |-> "object", val |-> d]

-----------------------------------------------------------------------------
(* app.js: the middleware chain registers no error-handling middleware, so  *)
(* an error passed to next(err) by asyncHandler reaches Express's default  *)
(* handler, which answers with an HTML page (holding err.stack unless      *)
(* NODE_ENV is production) under the error's statusCode when it has one in *)
(* 400..599 and under 500 otherwise.                                       *)

ErrorStatus(err) ==
    IF "statusCode" \in DOMAIN err /\ err.statusCode >= 400 /\ err.statusCode < 600
    THEN err.statusCode
    ELSE 500

NoResponse == [status |-> 0]

\* asyncHandler: Promise.resolve(handler(...)).catch(err => next(err)), then app's chain
ErrorResponse(err) ==
    [status |-> ErrorStatus(err), body |-> [contentType |-> "text/html"]]

\* res.status(code).json(payload)
JsonResponse(code, payload) == [status |-> code, body |-> payload]

-----------------------------------------------------------------------------
(* utils/cloudInary: uploadOnCloudinary *)

\* what uploadOnCloudinary resolves to: null, or the response of the remote service
Null == [ok |-> FALSE, url |-> <<>>]

CloudinaryResponse(path) == [ok |-> TRUE, url |-> <<"http://res.cloudinary.com/">> \o path]

\* the part of uploadOnCloudinary before its await: a falsy path returns null at once
UploadReturnsAtOnce(localFilePath) == localFilePath = Undefined

\* the part after the await: remoteOk says whether cloudinary.uploader.upload resolved.
\* On success fs.unlinkSync(path) runs inside the try (it throws when the file is gone,
\* and the catch then returns null); on failure the catch removes the file if it exists.
UploadResult(localFilePath, remoteOk, fs) ==
    IF remoteOk /\ localFilePath \in fs THEN CloudinaryResponse(localFilePath) ELSE Null

FilesAfterUpload(localFilePath, fs) == fs \ {localFilePath}

\* fs.unlinkSync(path) throws when path is no string or names no file
UnlinkThrows(path, fs) == path = Undefined \/ path \notin fs

\* the catch block with its unlink not guarded: fs.unlinkSync(localFilePath) at once
UploadCatchThrowsUnguarded(localFilePath, fs) == UnlinkThrows(localFilePath, fs)

\* does the catch block throw: its unlink runs only under
\* localFilePath && fs.existsSync(localFilePath)
UploadCatchThrows(localFilePath, fs) ==
    localFilePath # Undefined /\ localFilePath \in fs /\ UnlinkThrows(localFilePath, fs)

\* an uploadOnCloudinary call that has not started
UpIdle == [pc |-> "idle", localFilePath |-> Undefined, result |-> Null,
           remoteCalls |-> 0, remoteOk |-> FALSE, before |-> {}]

-----------------------------------------------------------------------------
(* models/user.model: userSchema *)

\* the setters of a String path: trim, lowercase (also run on query filters)
CastTrimLower(v) == IF v = Undefined THEN Undefined ELSE ToLowerCase(Trim(v))
CastTrim(v) == IF v = Undefined THEN Undefined ELSE Trim(v)

\* bcrypt.hash(password, 10): a modular-crypt string that carries cost and salt
Salts == {"salt1"}

BcryptHash(password, salt) == <<"$2b$", "10", "$", salt>> \o password

\* bcrypt.compare(password, hash)
BcryptCompare(password, hash) ==
    /\ Len(hash) >= 4
    /\ SubSeq(hash, 1, 3) = <<"$2b$", "10", "$">>
    /\ hash = BcryptHash(password, hash[4])

\* new User({...}): the document built by the schema (refreshTokens is not set)
NewUser(id, fields) ==
    [_id |-> id,
     username |-> CastTrimLower(fields.username),
     fullName |-> CastTrim(fields.fullName),
     password |-> fields.password,
     email |-> CastTrimLower(fields.email),
     avatar |-> fields.avatar,
     coverImage |-> fields.coverImage,
     watchHistory |-> <<>>]

\* required: true on username, fullName, password, email, avatar
RequiredPaths == {"username", "fullName", "password", "email", "avatar"}

ValidUser(doc) == \A k \in RequiredPaths : doc[k] # Undefined /\ doc[k] # <<>>

\* the hook with its test inverted: it returns early when the password was modified
PreSaveInverted(doc, isModifiedPassword, salt) ==
    IF isModifiedPassword THEN doc
    ELSE [doc EXCEPT !.password = BcryptHash(doc.password, salt)]

\* the hook without its isModified test: every save hashes the password
PreSaveAlways(doc, isModifiedPassword, salt) ==
    [doc EXCEPT !.password = BcryptHash(doc.password, salt)]

\* userSchema.pre('save')
PreSave(doc, isModifiedPassword, salt) ==
    IF ~isModifiedPassword THEN doc
    ELSE [doc EXCEPT !.password = BcryptHash(doc.password, salt)]

\* userSchema.methods.isPasswordCorrect
isPasswordCorrect(doc, password) == BcryptCompare(password, doc.password)

\* the unique index on username alone
DuplicateKeyUsernameOnly(coll, doc) == \E d \in coll : d.username = doc.username

\* unique: true on username and on email: the insert the unique indexes reject
DuplicateKey(coll, doc) ==
    \E d \in coll : d.username = doc.username \/ d.email = doc.email

\* the query on the email alone
FindOneByEmail(coll, email, username) ==
    {d \in coll : email # Undefined /\ d.email = CastTrimLower(email)}

\* User.findOne({ $or: [{ email }, { username }] }): the matching documents
\* (an undefined value is sent as null and matches no document that has the path)
FindOne(coll, email, username) ==
    {d \in coll : \/ (email # Undefined /\ d.email = CastTrimLower(email))
                  \/ (username # Undefined /\ d.username = CastTrimLower(username))}

\* the projection that forgets the password
ExcludedPathsNoPassword == {"refreshToken"}

\* User.findById(id).select("-password -refreshToken ")
ExcludedPaths == {"password", "refreshToken"}

Select(doc, excluded) == [k \in (DOMAIN doc) \ excluded |-> doc[k]]

FindById(coll, id) == {Select(d, ExcludedPaths) : d \in {x \in coll : x._id = id}}

-----------------------------------------------------------------------------
(* Requests *)

\* the clients whose requests the server handles concurrently
Clients == {"c1", "c2"}

\* the longest whitespace-only value a client sends
MaxBlank == 1

\* the empty string and the whitespace-only strings
Blanks == {[i \in 1..n |-> Space] : n \in 0..MaxBlank}

\* the values a client may send in a text field of the form (or leave out)
Usernames == {Undefined} \cup Blanks \cup {<<"a">>, <<"A">>, <<" ", "b">>}
Emails    == {Undefined} \cup Blanks \cup {<<"e">>, <<"E", " ">>, <<"f">>}
Passwords == {Undefined} \cup Blanks \cup {<<"p">>}
FullNames == {Undefined} \cup Blanks \cup {<<"n">>}

Bodies == [username : Usernames, email : Emails, password : Passwords, fullName : FullNames]

\* the well-formed payloads of the concurrent clients
ConcBodies ==
    [username : {<<"a">>, <<"A">>, <<" ", "b">>}, email : {<<"e">>, <<"f">>},
     password : {<<"p">>}, fullName : {<<"n">>}]

NoBody == [username |-> Undefined, email |-> Undefined, password |-> Undefined,
           fullName |-> Undefined]

\* history: is the email or the username of the body the one of a stored user
\* (as stored: trimmed and lowercased)
AlreadyStored(coll, body) ==
    \E d \in coll :
        \/ (body.email # Undefined /\ d.email = ToLowerCase(Trim(body.email)))
        \/ (body.username # Undefined /\ d.username = ToLowerCase(Trim(body.username)))

\* req.files.<field>[0].path: where multer stored the uploaded file of the request
TempPath(c, field) == <<"public/temp/", c, field>>

Idle ==
    [pc |-> "idle", body |-> NoBody,
     avatarLocalPath |-> Undefined, coverImagesLocalPath |-> Undefined,
     existedUser |-> FALSE, avatar |-> Null, coverImages |-> Null, newUserId |-> 0,
     error |-> NoError, res |-> NoResponse,
     \* history: was the email or username stored when the request arrived,
     \* and the temp files multer wrote for it
     presentOnArrival |-> FALSE, written |-> {},
     \* history: the users stored when the request arrived, and the calls the handler
     \* has awaited, in order
     stored |-> {}, calls |-> <<>>]

-----------------------------------------------------------------------------
(* controllers/user.controller: registerUser *)

AllFieldsRequired  == ApiError(400, "All fields are required")
UserAlreadyExists  == ApiError(409, "User already exists")
\* the avatar check answering with another status
AvatarRequiredAs404 == ApiError(404, "Avatar is required")
AvatarRequired     == ApiError(400, "Avatar is required")
AvatarUploadFailed == ApiError(400, "Avatar upload failed")
UserCreationFailed == ApiError(500, "User creation failed")

\* await <name>(...): the handler makes the call and waits for its result
Call(rq, name, pc) == [rq EXCEPT !.pc = pc, !.calls = Append(@, name)]

\* throw: the handler's promise rejects, asyncHandler passes the error on
Throw(rq, err) == [rq EXCEPT !.pc = "done", !.error = err, !.res = ErrorResponse(err)]

\* [fullName, email, password, username].some((field) => field?.trim() === "")
SomeFieldBlank(body) ==
    \E field \in {body.fullName, body.email, body.password, body.username} :
        IsBlankField(field)

\* the handler from its start to the await of User.findOne
StartHandler(rq) ==
    IF SomeFieldBlank(rq.body) THEN Throw(rq, AllFieldsRequired)
    ELSE Call(rq, "User.findOne", "findOne")

\* from the result of User.findOne to the await of the avatar upload
AfterFindOne(rq, found) ==
    IF found # {} THEN Throw([rq EXCEPT !.existedUser = TRUE], UserAlreadyExists)
    ELSE IF rq.avatarLocalPath = Undefined THEN Throw(rq, AvatarRequired)
    ELSE Call(rq, "uploadOnCloudinary(avatar)", "uploadAvatar")

\* the handler asking for both uploads to succeed
AfterUploadsBothRequired(rq) ==
    IF ~rq.avatar.ok \/ ~rq.coverImages.ok THEN Throw(rq, AvatarUploadFailed)
    ELSE IF rq.body.username = Undefined
         THEN Throw(rq, RawError("TypeError", "Cannot read properties of undefined"))
    ELSE Call(rq, "User.create", "create")

\* the handler without its test of the avatar result
AfterUploadsUnchecked(rq) ==
    IF rq.body.username = Undefined
    THEN Throw(rq, RawError("TypeError", "Cannot read properties of undefined"))
    ELSE Call(rq, "User.create", "create")

\* from the results of both uploads to the await of User.create
\* (username.toLowerCase() is evaluated while the argument of User.create is built)
AfterUploads(rq) ==
    IF ~rq.avatar.ok THEN Throw(rq, AvatarUploadFailed)
    ELSE IF rq.body.username = Undefined
         THEN Throw(rq, RawError("TypeError", "Cannot read properties of undefined"))
    ELSE Call(rq, "User.create", "create")

\* the argument of User.create
CreateFields(rq) ==
    [fullName |-> rq.body.fullName,
     email |-> rq.body.email,
     username |-> ToLowerCase(rq.body.username),
     password |-> rq.body.password,
     avatar |-> rq.avatar.url,
     coverImage |-> IF rq.coverImages.ok THEN rq.coverImages.url ELSE <<>>]

\* from the result of User.findById(...).select(...) to the response
AfterFindById(rq, found) ==
    IF found = {} THEN Throw(rq, UserCreationFailed)
    ELSE LET createdUser == CHOOSE d \in found : TRUE
         IN  [rq EXCEPT !.pc = "done",
                        !.res = JsonResponse(201,
                                    ApiResponse(201, Obj(createdUser),
                                                Str("User created successfully")))]

-----------------------------------------------------------------------------
(* Actions: one per run of the handler between two awaits *)

\* index.js has not run yet
BootStart == [pc |-> "start", connected |-> FALSE, listening |-> FALSE, exitCode |-> 0]

Init ==
    /\ users = {}
    /\ files = {}
    /\ req = [c \in Clients |-> Idle]
    /\ up = UpIdle
    /\ boot = BootStart

\* POST /api/v1/users/register arrives with a body of bodies and with or without the
\* two files: multer stores the files, registerUser starts
Receive(c, bodies, avatarSent) ==
    /\ req[c].pc = "idle"
    /\ \E body \in bodies, hasAvatar \in avatarSent, hasCover \in BOOLEAN :
         LET avatarPath == IF hasAvatar THEN TempPath(c, "avatar") ELSE Undefined
             coverPath  == IF hasCover THEN TempPath(c, "coverImages") ELSE Undefined
             written    == {avatarPath, coverPath} \ {Undefined}
             rq == [Idle EXCEPT !.body = body,
                                !.avatarLocalPath = avatarPath,
                                !.coverImagesLocalPath = coverPath,
                                !.presentOnArrival = AlreadyStored(users, body),
                                !.stored = users,
                                !.written = written]
         IN  /\ files' = files \cup written
             /\ req' = [req EXCEPT ![c] = StartHandler(rq)]
    /\ UNCHANGED <<users, up, boot>>

\* User.findOne resolves
FindOneReturns(c) ==
    /\ req[c].pc = "findOne"
    /\ req' = [req EXCEPT ![c] =
                 AfterFindOne(req[c], FindOne(users, req[c].body.email, req[c].body.username))]
    /\ UNCHANGED <<users, files, up, boot>>

\* the avatar upload settles; uploadOnCloudinary(coverImagesLocalPath) is called next
AvatarUploadReturns(c, remoteOk) ==
    /\ req[c].pc = "uploadAvatar"
    /\ LET path == req[c].avatarLocalPath
           rq == Call([req[c] EXCEPT !.avatar = UploadResult(path, remoteOk, files)],
                      "uploadOnCloudinary(coverImages)", "uploadCover")
       IN  /\ files' = FilesAfterUpload(path, files)
           /\ req' = [req EXCEPT ![c] =
                        IF UploadReturnsAtOnce(rq.coverImagesLocalPath)
                        THEN AfterUploads([rq EXCEPT !.coverImages = Null])
                        ELSE rq]
    /\ UNCHANGED <<users, up, boot>>

\* the cover-image upload settles
CoverUploadReturns(c, remoteOk) ==
    /\ req[c].pc = "uploadCover"
    /\ LET path == req[c].coverImagesLocalPath
           rq == [req[c] EXCEPT !.coverImages = UploadResult(path, remoteOk, files)]
       IN  /\ files' = FilesAfterUpload(path, files)
           /\ req' = [req EXCEPT ![c] = AfterUploads(rq)]
    /\ UNCHANGED <<users, up, boot>>

\* User.create settles: validation, the pre-save hook, the insert
CreateReturns(c, salt) ==
    /\ req[c].pc = "create"
    /\ LET doc == NewUser(Cardinality(users) + 1, CreateFields(req[c]))
           saved == PreSave(doc, TRUE, salt)
       IN  IF ~ValidUser(doc)
           THEN /\ req' = [req EXCEPT ![c] =
                             Throw(req[c], RawError("ValidationError", "User validation failed"))]
                /\ UNCHANGED <<users, up, boot>>
           ELSE IF DuplicateKey(users, saved)
           THEN /\ req' = [req EXCEPT ![c] =
                             Throw(req[c], RawError("MongoServerError", "E11000 duplicate key error"))]
                /\ UNCHANGED <<users, up, boot>>
           ELSE /\ users' = users \cup {saved}
                /\ req' = [req EXCEPT ![c] =
                             Call([req[c] EXCEPT !.newUserId = saved._id],
                                  "User.findById", "findById")]
    /\ UNCHANGED <<files, up, boot>>

\* User.findById(newUser._id).select(...) resolves
FindByIdReturns(c) ==
    /\ req[c].pc = "findById"
    /\ req' = [req EXCEPT ![c] = AfterFindById(req[c], FindById(users, req[c].newUserId))]
    /\ UNCHANGED <<users, files, up, boot>>

\* the client has read the response: the request and the temp files left from it
\* are no longer followed
Close(c) ==
    /\ req[c].pc = "done"
    /\ req' = [req EXCEPT ![c] = Idle]
    /\ files' = files \ req[c].written
    /\ UNCHANGED <<users, up, boot>>

\* the videos a user may have watched, and how many of them the model records
MaxHistory == 1

\* a stored user is loaded, a video is added to its watchHistory, and it is saved:
\* the pre-save hook runs with isModified("password") false
SaveUser(d, salt) ==
    /\ d \in users
    /\ Len(d.watchHistory) < MaxHistory
    /\ users' = (users \ {d}) \cup
                 {PreSave([d EXCEPT !.watchHistory = Append(@, "video")], FALSE, salt)}
    /\ UNCHANGED <<files, req, up, boot>>

\* one client sending one request after the other, any payload
Next ==
    \/ Receive("c1", Bodies, BOOLEAN)
    \/ FindOneReturns("c1")
    \/ \E remoteOk \in BOOLEAN : AvatarUploadReturns("c1", remoteOk)
    \/ \E remoteOk \in BOOLEAN : CoverUploadReturns("c1", remoteOk)
    \/ \E salt \in Salts : CreateReturns("c1", salt)
    \/ FindByIdReturns("c1")
    \/ Close("c1")

Spec == Init /\ [][Next]_vars

\* the clients sending well-formed requests concurrently
NextConc ==
    \E c \in Clients :
        \/ Receive(c, ConcBodies, {TRUE})
        \/ FindOneReturns(c)
        \/ \E remoteOk \in BOOLEAN : AvatarUploadReturns(c, remoteOk)
        \/ \E remoteOk \in BOOLEAN : CoverUploadReturns(c, remoteOk)
        \/ \E salt \in Salts : CreateReturns(c, salt)
        \/ FindByIdReturns(c)
        \/ Close(c)

SpecConc == Init /\ [][NextConc]_vars

\* the well-formed payloads of the client whose users are saved again
SaveBodies ==
    [username : {<<"a">>, <<" ", "b">>}, email : {<<"e">>, <<"f">>},
     password : {<<"p">>, <<"P", "p">>}, fullName : {<<"n">>}]

\* one client sending well-formed requests, and stored users being saved again
NextSave ==
    \/ Receive("c1", SaveBodies, {TRUE})
    \/ FindOneReturns("c1")
    \/ \E remoteOk \in BOOLEAN : AvatarUploadReturns("c1", remoteOk)
    \/ \E remoteOk \in BOOLEAN : CoverUploadReturns("c1", remoteOk)
    \/ \E salt \in Salts : CreateReturns("c1", salt)
    \/ FindByIdReturns("c1")
    \/ Close("c1")
    \/ \E d \in users, salt \in Salts : SaveUser(d, salt)

SpecSave == Init /\ [][NextSave]_vars

\* the plaintexts a stored user may change its password to
NewPasswords == {<<"q">>, <<"p">>}

\* a stored user is loaded, its password is set to a new plaintext, and it is saved:
\* the pre-save hook runs with isModified("password") true
ChangePassword(d, password, salt) ==
    /\ d \in users
    /\ users' = (users \ {d}) \cup {PreSave([d EXCEPT !.password = password], TRUE, salt)}
    /\ UNCHANGED <<files, req, up, boot>>

\* one client sending well-formed requests, stored users being saved again with and
\* without a new password
NextPassword ==
    \/ Receive("c1", SaveBodies, {TRUE})
    \/ FindOneReturns("c1")
    \/ \E remoteOk \in BOOLEAN : AvatarUploadReturns("c1", remoteOk)
    \/ \E remoteOk \in BOOLEAN : CoverUploadReturns("c1", remoteOk)
    \/ \E salt \in Salts : CreateReturns("c1", salt)
    \/ FindByIdReturns("c1")
    \/ Close("c1")
    \/ \E d \in users, salt \in Salts : SaveUser(d, salt)
    \/ \E d \in users, password \in NewPasswords, salt \in Salts : ChangePassword(d, password, salt)

SpecPassword == Init /\ [][NextPassword]_vars

-----------------------------------------------------------------------------
(* uploadOnCloudinary followed on its own: any path, any state of the temp folder *)

\* the paths multer may have written
TempFiles == {TempPath(c, field) : c \in Clients, field \in {"avatar", "coverImages"}}

\* multer writes an uploaded file
WriteTempFile(path) ==
    /\ up.pc = "idle"
    /\ path \in TempFiles \ files
    /\ files' = files \cup {path}
    /\ UNCHANGED <<users, req, up, boot>>

\* uploadOnCloudinary(localFilePath) runs to its await, or returns null for a falsy path
CallUpload(localFilePath) ==
    /\ up.pc = "idle"
    /\ up' = IF UploadReturnsAtOnce(localFilePath)
             THEN [UpIdle EXCEPT !.pc = "returned", !.before = files]
             ELSE [UpIdle EXCEPT !.pc = "uploading", !.localFilePath = localFilePath,
                                 !.remoteCalls = 1, !.before = files]
    /\ UNCHANGED <<users, files, req, boot>>

\* cloudinary.uploader.upload settles (it reads the local file, so it resolves only
\* when the file exists) and uploadOnCloudinary runs to its end
UploadSettles(remoteOk) ==
    /\ up.pc = "uploading"
    /\ remoteOk => up.localFilePath \in files
    /\ LET path == up.localFilePath
           \* the try block ends in the catch when the upload rejects or unlinkSync throws
           caught == ~remoteOk \/ UnlinkThrows(path, files)
           threw == caught /\ UploadCatchThrows(path, files)
       IN  /\ up' = [up EXCEPT !.pc = IF threw THEN "thrown" ELSE "returned",
                               !.remoteOk = remoteOk,
                               !.result = UploadResult(path, remoteOk, files)]
           /\ files' = FilesAfterUpload(path, files)
    /\ UNCHANGED <<users, req, boot>>

\* the caller goes on
ForgetUpload ==
    /\ up.pc \in {"returned", "thrown"}
    /\ up' = UpIdle
    /\ UNCHANGED <<users, files, req, boot>>

NextUpload ==
    \/ \E path \in TempFiles : WriteTempFile(path)
    \/ \E path \in TempFiles \cup {Undefined} : CallUpload(path)
    \/ \E remoteOk \in BOOLEAN : UploadSettles(remoteOk)
    \/ ForgetUpload

SpecUpload == Init /\ [][NextUpload]_vars

-----------------------------------------------------------------------------
(* index.js: connectDB().then(() => app.listen(PORT, ...)).catch(() => process.exit(1)) *)
(* The other specifications follow the requests of a server that is up and *)
(* leave boot alone; this one follows the start of the process as well.    *)

\* index.js calling app.listen right after connectDB(), without waiting for it
AfterStartListening(b) == [b EXCEPT !.pc = "connecting", !.listening = TRUE]

\* index.js from its first line to the end of the script: connectDB() is called and
\* the then and catch callbacks are registered
AfterStart(b) == [b EXCEPT !.pc = "connecting"]

\* connectDB resolved: the then callback calls app.listen
AfterConnected(b) == [b EXCEPT !.pc = "running", !.connected = TRUE, !.listening = TRUE]

\* mongoose.connect rejected: process.exit(1), in connectDB's catch or in index.js's
AfterConnectFailed(b) == [b EXCEPT !.pc = "exited", !.exitCode = 1]

\* node src/index.js
StartProcess ==
    /\ boot.pc = "start"
    /\ boot' = AfterStart(boot)
    /\ UNCHANGED <<users, files, req, up>>

\* mongoose.connect settles
ConnectSettles(ok) ==
    /\ boot.pc = "connecting"
    /\ boot' = IF ok THEN AfterConnected(boot) ELSE AfterConnectFailed(boot)
    /\ UNCHANGED <<users, files, req, up>>

\* the process serves a request only while it listens
Serving == boot.listening /\ boot.pc # "exited"

NextBoot ==
    \/ StartProcess
    \/ \E ok \in BOOLEAN : ConnectSettles(ok)
    \/ Serving /\ Receive("c1", SaveBodies, {TRUE})
    \/ Serving /\ FindOneReturns("c1")
    \/ Serving /\ \E remoteOk \in BOOLEAN : AvatarUploadReturns("c1", remoteOk)
    \/ Serving /\ \E remoteOk \in BOOLEAN : CoverUploadReturns("c1", remoteOk)
    \/ Serving /\ \E salt \in Salts : CreateReturns("c1", salt)
    \/ Serving /\ FindByIdReturns("c1")
    \/ Serving /\ Close("c1")

SpecBoot == Init /\ [][NextBoot]_vars

-----------------------------------------------------------------------------
(* Properties *)

Done(c) == req[c].pc = "done"

\* the empty string or a whitespace-only string
WhitespaceOnly(v) == v # Undefined /\ \A i \in 1..Len(v) : v[i] = Space

RequiredFields(body) == {body.fullName, body.email, body.password, body.username}

AnyFieldBlank(body) == \E v \in RequiredFields(body) : WhitespaceOnly(v)

AllFieldsNonBlank(body) ==
    \A v \in RequiredFields(body) : v # Undefined /\ ~WhitespaceOnly(v)

\* C1: a request in which one of fullName, email, password, username is empty or
\* whitespace-only ends with the validation error and HTTP 400, whatever is stored
\* and whatever files came with it.
C1_BlankFieldIs400 ==
    \A c \in Clients :
        Done(c) /\ AnyFieldBlank(req[c].body)
            => req[c].error = AllFieldsRequired /\ req[c].res.status = 400

\* C1 happens: a request with a whitespace-only field and both files, sent while a
\* user is stored, has ended with 400
C1_Witness ==
    \E c \in Clients :
        /\ Done(c) /\ users # {}
        /\ req[c].body.email = <<" ">> /\ req[c].body.username = <<"a">>
        /\ Cardinality(req[c].written) = 2
        /\ req[c].res.status = 400

\* C2: a request whose four fields are non-blank and whose email or username was
\* stored when it arrived ends with the conflict error and HTTP 409, with or without
\* an avatar file.
C2_DuplicateIs409 ==
    \A c \in Clients :
        Done(c) /\ AllFieldsNonBlank(req[c].body) /\ req[c].presentOnArrival
            => req[c].error = UserAlreadyExists /\ req[c].res.status = 409

\* C2 happens: a request without avatar whose username alone collides (in another
\* letter case) has ended with 409
C2_Witness ==
    \E c \in Clients :
        /\ Done(c) /\ AllFieldsNonBlank(req[c].body) /\ req[c].presentOnArrival
        /\ req[c].avatarLocalPath = Undefined
        /\ req[c].body.username = <<"A">>
        /\ \A d \in users : d.email # ToLowerCase(Trim(req[c].body.email))
        /\ req[c].res.status = 409

\* C3 as claimed: every request that carries no avatar file ends with HTTP 400,
\* whatever its other fields and whatever is stored.
C3_NoAvatarIs400 ==
    \A c \in Clients :
        Done(c) /\ req[c].avatarLocalPath = Undefined => req[c].res.status = 400

\* C3 amended: a request that carries no avatar file ends with HTTP 400, unless the
\* duplication check found its email or username stored (which takes no blank
\* field), and then it ends with HTTP 409.
C3_NoAvatarIs400Or409 ==
    \A c \in Clients :
        Done(c) /\ req[c].avatarLocalPath = Undefined
            => /\ req[c].res.status = (IF req[c].existedUser THEN 409 ELSE 400)
               /\ req[c].existedUser
                    => ~AnyFieldBlank(req[c].body) /\ AlreadyStored(users, req[c].body)
               /\ req[c].presentOnArrival /\ ~AnyFieldBlank(req[c].body)
                    => req[c].existedUser

\* C3 happens: a request with four valid, unused fields and no avatar has ended
\* with 400
C3_Witness ==
    \E c \in Clients :
        /\ Done(c) /\ req[c].avatarLocalPath = Undefined
        /\ AllFieldsNonBlank(req[c].body) /\ ~req[c].presentOnArrival
        /\ req[c].error = AvatarRequired /\ req[c].res.status = 400

\* the documents a response body carries
BodyObjects(body) ==
    {body[k].val : k \in {k \in {"message", "data"} : body[k].type = "object"}}

\* C4: the user object of every 201 response has neither a password key nor a
\* refreshTokens key.
C4_NoSensitiveKeys ==
    \A c \in Clients :
        Done(c) /\ req[c].res.status = 201
            => /\ BodyObjects(req[c].res.body) # {}
               /\ \A u \in BodyObjects(req[c].res.body) :
                      "password" \notin DOMAIN u /\ "refreshTokens" \notin DOMAIN u

\* C4 happens: a 201 response carries the user whose stored document has a password
C4_Witness ==
    \E c \in Clients :
        /\ Done(c) /\ req[c].res.status = 201
        /\ \E u \in BodyObjects(req[c].res.body), d \in users :
              d._id = u._id /\ "password" \in DOMAIN d /\ u.username = d.username

\* C5: in the body of every 201 response, data is the sanitized user (data.username
\* the lowercased username of the request), message is the success message,
\* statusCode is 201 and success is true.
C5_EnvelopeOf201 ==
    \A c \in Clients :
        Done(c) /\ req[c].res.status = 201
            => /\ req[c].res.body.statusCode = 201
               /\ req[c].res.body.success
               /\ req[c].res.body.message = Str("User created successfully")
               /\ req[c].res.body.data.type = "object"
               /\ req[c].res.body.data.val.username = ToLowerCase(req[c].body.username)

\* the user a request created, while the request is followed
CreatedBy(c) == {d \in users : req[c].newUserId # 0 /\ d._id = req[c].newUserId}

\* C6: after any creations and saves, the stored password of a user is a hash that
\* differs from the plaintext of the registration, and isPasswordCorrect(plaintext)
\* is true of the stored user.
C6_PasswordStoredHashed ==
    /\ \A d \in users, body \in SaveBodies : d.password # body.password
    /\ \A c \in Clients : \A d \in CreatedBy(c) :
          /\ d.password # req[c].body.password
          /\ isPasswordCorrect(d, req[c].body.password)

\* C6 happens: a user created by a request has been saved again afterwards
C6_Witness ==
    \E c \in Clients : \E d \in CreatedBy(c) :
        /\ d.watchHistory # <<>>
        /\ req[c].body.password = <<"P", "p">>
        /\ isPasswordCorrect(d, req[c].body.password)

\* C7: whatever the interleaving of the requests, no two stored users have the same
\* stored username and no two have the same stored email, the stored values being
\* trimmed and lowercased.
C7_UniqueUsernameAndEmail ==
    /\ \A d1 \in users, d2 \in users :
          d1 # d2 => d1.username # d2.username /\ d1.email # d2.email
    /\ \A d \in users :
          d.username = ToLowerCase(Trim(d.username)) /\ d.email = ToLowerCase(Trim(d.email))

\* C7 happens: two users are stored, and a request that passed the duplication check
\* while another with the same username was in flight was refused by the index
C7_Witness ==
    /\ Cardinality(users) = 2
    /\ \E c \in Clients :
          /\ Done(c) /\ ~req[c].existedUser
          /\ req[c].error.name = "MongoServerError"
          /\ req[c].body.username = <<"A">>

\* C8: every error registerUser throws is the structured error, with a status code in
\* {400, 409, 500}, a message and a list of sub-errors.
C8_ThrowsOnlyApiError ==
    \A c \in Clients :
        Done(c) /\ req[c].error # NoError
            => /\ req[c].error.name = "apiError"
               /\ {"statusCode", "message", "errors"} \subseteq DOMAIN req[c].error
               /\ req[c].error.statusCode \in {400, 409, 500}

\* the standard error envelope
ErrorEnvelopeKeys == {"statusCode", "message", "errors", "data", "success"}

\* C9: every error of a registration reaches the client as the standard error
\* envelope {statusCode, message, errors, data: null, success: false}.
C9_ErrorEnvelope ==
    \A c \in Clients :
        Done(c) /\ req[c].error # NoError
            => /\ DOMAIN req[c].res.body = ErrorEnvelopeKeys
               /\ req[c].res.body.data = "null"
               /\ req[c].res.body.success = FALSE

\* C10: when a request has ended, with 201 or with an error, none of the temp files
\* written for its avatar or cover image exists any more.
C10_NoTempFileLeft ==
    \A c \in Clients : Done(c) => req[c].written \cap files = {}

ValidWithAvatar(c) ==
    /\ AllFieldsNonBlank(req[c].body)
    /\ ~req[c].presentOnArrival
    /\ req[c].avatarLocalPath # Undefined
    /\ req[c].avatar.ok

\* C13: a request with valid, non-duplicate fields whose avatar upload succeeded ends
\* with 201 whether the cover image was absent, uploaded or failed to upload; without
\* a cover result the stored coverImage is the empty string.
C13_CoverImageOptional ==
    \A c \in Clients :
        Done(c) /\ ValidWithAvatar(c)
            => /\ req[c].res.status = 201
               /\ \E d \in CreatedBy(c) :
                     d.coverImage = (IF req[c].coverImages.ok
                                     THEN CloudinaryResponse(req[c].coverImagesLocalPath).url
                                     ELSE <<>>)

\* C13 happens: a cover image was sent, its upload failed, and the request ended with
\* 201 and an empty coverImage stored
C13_Witness ==
    \E c \in Clients :
        /\ Done(c) /\ ValidWithAvatar(c)
        /\ req[c].coverImagesLocalPath # Undefined /\ ~req[c].coverImages.ok
        /\ req[c].res.status = 201
        /\ \E d \in CreatedBy(c) : d.coverImage = <<>>

\* C14: a save of a user whose password was not modified (here: a save that adds to
\* its watchHistory) leaves the stored hash as it was; a save that changes the stored
\* password leaves the hash of the new plaintext, never the plaintext.
C14_HashOnlyWhenModified ==
    [][\A d \in users : \A e \in users' :
          e._id = d._id =>
             /\ e.watchHistory # d.watchHistory => e.password = d.password
             /\ e.password # d.password =>
                   \E password \in NewPasswords, salt \in Salts :
                       /\ e.password = BcryptHash(password, salt)
                       /\ isPasswordCorrect(e, password)
                       /\ ~isPasswordCorrect(d, password)]_vars

\* C14 happens: a user registered with "Pp" has changed its password to "q" and has
\* been saved without a password change as well
C14_Witness ==
    \E c \in Clients : \E d \in CreatedBy(c) :
        /\ req[c].body.password = <<"P", "p">>
        /\ d.watchHistory # <<>>
        /\ isPasswordCorrect(d, <<"q">>)
        /\ ~isPasswordCorrect(d, req[c].body.password)

\* C15: a request in which one of fullName, email, password, username is absent is
\* rejected with the validation error and HTTP 400 at once: it never waits for a
\* repository query, an upload or a write.
C15_AbsentFieldIs400 ==
    \A c \in Clients :
        req[c].pc # "idle" /\ Undefined \in RequiredFields(req[c].body)
            => /\ Done(c)
               /\ req[c].error = AllFieldsRequired
               /\ req[c].res.status = 400

\* the calls of registerUser, in the order of its awaits
ExternalCalls ==
    <<"User.findOne", "uploadOnCloudinary(avatar)", "uploadOnCloudinary(coverImages)",
      "User.create", "User.findById">>

IsPrefix(s, t) == Len(s) <= Len(t) /\ s = SubSeq(t, 1, Len(s))

Called(c, name) == \E i \in 1..Len(req[c].calls) : req[c].calls[i] = name

\* C16: the calls a request has made are a prefix of findOne, avatar upload, cover
\* upload, create, findById (so each is made at most once); create is called only
\* after findOne found no match and the avatar upload gave a result; and a request
\* that ends with 400 or 409 leaves the stored users as they were when it arrived.
C16_CallsInOrderOnce ==
    \A c \in Clients :
        /\ IsPrefix(req[c].calls, ExternalCalls)
        /\ Called(c, "User.create")
              => /\ ~req[c].existedUser
                 /\ FindOne(req[c].stored, req[c].body.email, req[c].body.username) = {}
                 /\ req[c].avatar.ok
        /\ Done(c) /\ req[c].res.status \in {400, 409}
              => users = req[c].stored /\ ~Called(c, "User.create")

\* C16 happens: a request made findOne and both uploads, its avatar upload failed, and
\* it ended with 400 while a user stored earlier is still the only one
C16_Witness ==
    \E c \in Clients :
        /\ Done(c) /\ req[c].res.status = 400
        /\ req[c].calls = SubSeq(ExternalCalls, 1, 3)
        /\ req[c].coverImagesLocalPath # Undefined
        /\ users # {} /\ users = req[c].stored

\* the two requests carry the same email or the same username, as the schema stores them
SameEmailOrUsername(c, d) ==
    \/ CastTrimLower(req[c].body.email) = CastTrimLower(req[d].body.email)
    \/ CastTrimLower(req[c].body.username) = CastTrimLower(req[d].body.username)

\* C17: of two requests with the same email or the same username, interleaved in any
\* way and neither stopped by a failed avatar upload, at most one ends with 201 and
\* the other ends with the 409 conflict error.
C17_LoserGets409 ==
    \A c \in Clients, d \in Clients :
        /\ c # d /\ Done(c) /\ Done(d) /\ SameEmailOrUsername(c, d)
        /\ req[c].error # AvatarUploadFailed /\ req[d].error # AvatarUploadFailed
        => /\ ~(req[c].res.status = 201 /\ req[d].res.status = 201)
           /\ req[c].res.status = 201
                 => req[d].error = UserAlreadyExists /\ req[d].res.status = 409

====
